---- MODULE Spec2Model ----
(***************************************************************************)
(* Model of the lazily expanding comment tree (CommentList) and of the     *)
(* paginated user listing (UserListing) of new-rawr.                       *)
(*                                                                         *)
(* Comments are identified by the position at which the API hands them     *)
(* out: comment 1 is the first comment delivered, comment 2 the second,    *)
(* and so on; 'more' groups are numbered the same way.  Which comment is   *)
(* the parent of which is an arbitrary acyclic function chosen in Init, so *)
(* a child may be delivered before or after its parent.                    *)
(***************************************************************************)
EXTENDS Integers, Sequences, FiniteSets, TLC

\* ------------------------------------------------------------------ bounds
MaxNodes == 3
MaxGroups == 3
MaxBatch == 3
MaxItems == 5
MaxPageItems == 2
MaxCursor == 3
MaxThreads == 2
MaxLogins == 2

Nodes == 1..MaxNodes
Groups == 1..MaxGroups
Threads == 1..MaxThreads

\* ------------------------------------------------- values of the program
\* CommentList.parent: the identity of the thing the list hangs under.
ROOT == 0
\* next_comment has not returned yet.
NoResult == -1
\* Option::None returned by next_comment.
None == 0
\* No MoreData is being resolved.
NoMore == 0
\* ListingData.after is Option::None.
NoCursor == 0
\* No thread holds the guard of the authenticator mutex.
Unlocked == 0

EmptyMap == [x \in {} |-> 0]

\* HashMap::insert
Put(h, k, v) == [x \in (DOMAIN h) \cup {k} |-> IF x = k THEN v ELSE h[x]]

\* HashMap::remove (the map that is left)
Remove(h, k) == [x \in (DOMAIN h) \ {k} |-> h[x]]

VARIABLES
    parent_id,       \* CommentData.parent_id of every comment the API knows
    batch,           \* the comment_list argument CommentList::new was given
    comments,        \* CommentList.comments
    comment_hashes,  \* CommentList.comment_hashes (name -> position, from 0)
    more,            \* CommentList.more
    replies,         \* Comment.replies.comments of every comment
    orphanage,       \* the orphans map of the last merge_more_comments
    pc,              \* "idle", "fetching" (inside fetch_more), "panicked"
    more_item,       \* the MoreData drained for the fetch in flight
    result,          \* what the last next_comment returned
    nodes_served,    \* comments the API has handed out so far
    groups_served,   \* 'more' groups the API has handed out so far
    last_page,       \* comments of the listing merged last
    yielded,         \* comments returned by next_comment, in order
    resolved,        \* 'more' groups drained for resolution, in order
    fetches,         \* requests sent by the current next_comment call
    failure,         \* how the fetch that panicked failed, "none" otherwise
    after_end,       \* the last next_comment call came after a None
    l_children,      \* UserListing.data.children
    l_after,         \* UserListing.data.after
    l_pc,            \* "idle", "fetching" (inside fetch_after), "panicked"
    l_result,        \* what the last UserListing::next returned
    l_served,        \* users the API has handed out so far
    l_yielded,       \* users returned by next, in order
    l_fetches,       \* requests sent by the current next call
    l_failure,       \* how the fetch that panicked failed, "none" otherwise
    l_after_end,     \* the last next call came after a None
    l_call_after,    \* data.after when the last next call was made
    l_pages,         \* size and continuation of every page received so far
    auth_kind,       \* "anonymous" or "password": the Authenticator in the box
    access_token,    \* PasswordAuthenticator.access_token is Some
    expire_time,     \* PasswordAuthenticator.expire_time: "none", "ahead", "passed"
    c_state,         \* RedditClient: "unborn", "live", "dropped", or panicked
    auto_logout,     \* RedditClient.auto_logout
    lock,            \* the thread that holds the MutexGuard, or Unlocked
    t_pc,            \* where every thread is in its request
    t_op,            \* the request every thread is making
    t_stale,         \* needs_token_refresh() when the thread's request began
    t_login0,        \* logins completed when the thread's request began
    logins,          \* logins completed
    logouts,         \* calls of Authenticator::logout
    set_called,      \* set_auto_logout has been called
    poisoned,        \* a thread has panicked while it held the guard
    t_url,           \* the stem build_url chose for the thread's request
    w_data,          \* the cached fields of a Submission, Comment or Message
    w_pc,            \* "idle", "posting" or "panicked"
    w_op,            \* the write action that is under way, or the last one
    w_result,        \* what the last write action returned
    w_before         \* the cached fields when the last write action began

treeVars == <<parent_id, batch, comments, comment_hashes, more, replies,
              orphanage, pc, more_item, result, nodes_served, groups_served,
              last_page, yielded, resolved, fetches, failure, after_end>>

listingVars == <<l_children, l_after, l_pc, l_result, l_served, l_yielded,
                 l_fetches, l_failure, l_after_end, l_call_after, l_pages>>

clientVars == <<auth_kind, access_token, expire_time, c_state, auto_logout,
                lock, t_pc, t_op, t_stale, t_login0, logins, logouts,
                set_called, poisoned, t_url>>

writeVars == <<w_data, w_pc, w_op, w_result, w_before>>

vars == <<treeVars, listingVars, clientVars, writeVars>>

\* ------------------------------------------------------ what the API sends
RECURSIVE ReachesRoot(_, _, _)
ReachesRoot(f, n, k) ==
    IF n = ROOT THEN TRUE
    ELSE IF k = 0 THEN FALSE
    ELSE ReachesRoot(f, f[n], k - 1)

\* parent_id always points upward: following it ends at the list's parent.
Acyclic(f) == \A n \in Nodes : ReachesRoot(f, n, MaxNodes)

ParentMaps == {f \in [Nodes -> {ROOT} \cup Nodes] : Acyclic(f)}

\* The kinds of the things of one listing, in the order the API lists them.
Shapes == UNION {[1..n -> {"t1", "more"}] : n \in 0..MaxBatch}

CountKind(shape, k) == Cardinality({i \in DOMAIN shape : shape[i] = k})

\* The BasicThing values of a listing of the given shape, named afresh.
RECURSIVE MakeThings(_, _, _)
MakeThings(shape, n, g) ==
    IF shape = <<>> THEN <<>>
    ELSE IF Head(shape) = "t1"
         THEN <<[kind |-> "t1", id |-> n + 1]>> \o MakeThings(Tail(shape), n + 1, g)
         ELSE <<[kind |-> "more", id |-> g + 1]>> \o MakeThings(Tail(shape), n, g + 1)

Fits(shape, n, g) ==
    /\ n + CountKind(shape, "t1") <= MaxNodes
    /\ g + CountKind(shape, "more") <= MaxGroups

\* ------------------------------------------------------------ CommentList
\* CommentList::new: every t1 thing goes to comments and is registered in the
\* hashes at its position, every 'more' thing goes to more.
RECURSIVE New(_, _)
New(things, acc) ==
    IF things = <<>> THEN acc
    ELSE LET item == Head(things) IN
         IF item.kind = "t1"
         THEN New(Tail(things),
                  [acc EXCEPT !.comment_hashes = Put(@, item.id, Len(acc.comments)),
                              !.comments = Append(@, item.id)])
         ELSE New(Tail(things), [acc EXCEPT !.more = Append(@, item.id)])

\* CommentList::empty
Empty == [comments |-> <<>>, comment_hashes |-> EmptyMap, more |-> <<>>]

\* CommentList::add_reply
add_reply(st, item) ==
    [st EXCEPT !.comment_hashes = Put(@, item, Len(st.comments)),
               !.comments = Append(@, item)]

\* Comment::add_reply with the reply inserted in front of the earlier replies.
Comment_add_reply_Front(st, target, item) ==
    [st EXCEPT !.replies[target] = <<item>> \o @]

\* Comment::add_reply on a copy: the reply also stays with the caller, which
\* goes on to store it as an orphan.
Comment_add_reply_Copy(st, target, item) ==
    [st EXCEPT !.replies[target] = Append(@, item),
               !.orphanage = Put(@, item, <<item>>)]

\* Comment::add_reply: the reply is pushed onto the comment's own reply list.
Comment_add_reply(st, target, item) ==
    [st EXCEPT !.replies[target] = Append(@, item)]

\* for orphan in orphaned { item.add_reply(orphan) }
RECURSIVE adopt(_, _, _)
adopt(st, item, orphaned) ==
    IF orphaned = <<>> THEN st
    ELSE adopt(Comment_add_reply(st, item, Head(orphaned)), item, Tail(orphaned))

\* CommentList::merge_comment
RECURSIVE merge_comment(_, _)

\* merge_comment without the return after the indexed parent took the reply:
\* the reply is pushed onto comments as well.
merge_comment_AlsoReady(st, item) ==
    IF parent_id[item] = ROOT THEN add_reply(st, item)
    ELSE IF parent_id[item] \in DOMAIN st.comment_hashes
    THEN LET pos == st.comment_hashes[parent_id[item]] IN
         IF pos < Len(st.comments)
         THEN add_reply(Comment_add_reply(st, st.comments[pos + 1], item), item)
         ELSE [st EXCEPT !.ok = FALSE]
    ELSE IF parent_id[item] \in DOMAIN st.orphanage
    THEN LET orphaned == st.orphanage[parent_id[item]]
             st1 == [st EXCEPT !.orphanage = Remove(@, parent_id[item])]
         IN merge_comment(adopt(st1, item, orphaned), item)
    ELSE IF item \in DOMAIN st.orphanage
    THEN [st EXCEPT !.orphanage = Put(Remove(@, item), item,
                                      Append(st.orphanage[item], item))]
    ELSE [st EXCEPT !.orphanage = Put(@, item, <<item>>)]

merge_comment(st, item) ==
    IF parent_id[item] = ROOT THEN add_reply(st, item)
    ELSE IF parent_id[item] \in DOMAIN st.comment_hashes
    THEN LET pos == st.comment_hashes[parent_id[item]] IN
         IF pos < Len(st.comments)
         THEN Comment_add_reply(st, st.comments[pos + 1], item)
         ELSE [st EXCEPT !.ok = FALSE]
    ELSE IF parent_id[item] \in DOMAIN st.orphanage
    THEN LET orphaned == st.orphanage[parent_id[item]]
             st1 == [st EXCEPT !.orphanage = Remove(@, parent_id[item])]
         IN merge_comment(adopt(st1, item, orphaned), item)
    ELSE IF item \in DOMAIN st.orphanage
    THEN [st EXCEPT !.orphanage = Put(Remove(@, item), item,
                                      Append(st.orphanage[item], item))]
    ELSE [st EXCEPT !.orphanage = Put(@, item, <<item>>)]

RECURSIVE merge_each(_, _)
merge_each(st, items) ==
    IF items = <<>> THEN st
    ELSE merge_each(merge_comment(st, Head(items)), Tail(items))

\* CommentList::merge_more_comments: a new orphans map for every listing.
merge_more_comments(st, items) ==
    merge_each([st EXCEPT !.orphanage = EmptyMap], items)

\* The new groups put in front of the waiting ones.
more_append_Front(ms, new_more) == new_more \o ms

\* self.more.append(&mut new_listing.more)
more_append(ms, new_more) == ms \o new_more

\* next_comment with the two tests the other way round: a waiting group is
\* resolved before the comments at hand are returned.
next_comment_MoreFirst(cs, hs, ms, nfetch) ==
    IF ms # <<>>
    THEN /\ more_item' = Head(ms)
         /\ more' = Tail(ms)
         /\ resolved' = Append(resolved, Head(ms))
         /\ comments' = cs
         /\ comment_hashes' = hs
         /\ result' = NoResult
         /\ pc' = "fetching"
         /\ fetches' = nfetch + 1
         /\ UNCHANGED yielded
    ELSE IF cs = <<>>
    THEN /\ result' = None
         /\ comments' = cs
         /\ comment_hashes' = hs
         /\ more' = ms
         /\ more_item' = NoMore
         /\ pc' = "idle"
         /\ fetches' = nfetch
         /\ UNCHANGED <<yielded, resolved>>
    ELSE /\ result' = Head(cs)
         /\ comments' = Tail(cs)
         /\ comment_hashes' = hs
         /\ more' = ms
         /\ more_item' = NoMore
         /\ yielded' = Append(yielded, Head(cs))
         /\ pc' = "idle"
         /\ fetches' = nfetch
         /\ UNCHANGED resolved

\* next_comment that looks at comments only: with comments empty it returns
\* None whatever more holds.
next_comment_IgnoreMore(cs, hs, ms, nfetch) ==
    IF cs = <<>>
    THEN /\ result' = None
         /\ comments' = cs
         /\ comment_hashes' = hs
         /\ more' = ms
         /\ more_item' = NoMore
         /\ pc' = "idle"
         /\ fetches' = nfetch
         /\ UNCHANGED <<yielded, resolved>>
    ELSE /\ result' = Head(cs)
         /\ comments' = Tail(cs)
         /\ comment_hashes' = hs
         /\ more' = ms
         /\ more_item' = NoMore
         /\ yielded' = Append(yielded, Head(cs))
         /\ pc' = "idle"
         /\ fetches' = nfetch
         /\ UNCHANGED resolved

\* next_comment that reads more[0] without draining it: the group it resolves
\* stays in more.
next_comment_KeepGroup(cs, hs, ms, nfetch) ==
    IF cs = <<>>
    THEN IF ms = <<>>
         THEN /\ result' = None
              /\ comments' = cs
              /\ comment_hashes' = hs
              /\ more' = ms
              /\ more_item' = NoMore
              /\ pc' = "idle"
              /\ fetches' = nfetch
              /\ UNCHANGED <<yielded, resolved>>
         ELSE /\ more_item' = Head(ms)
              /\ more' = ms
              /\ comments' = cs
              /\ comment_hashes' = hs
              /\ result' = NoResult
              /\ pc' = "fetching"
              /\ fetches' = 1
              /\ UNCHANGED <<yielded, resolved>>
    ELSE /\ result' = Head(cs)
         /\ comments' = Tail(cs)
         /\ comment_hashes' = hs
         /\ more' = ms
         /\ more_item' = NoMore
         /\ yielded' = Append(yielded, Head(cs))
         /\ pc' = "idle"
         /\ fetches' = nfetch
         /\ UNCHANGED resolved

\* The body of CommentList::next_comment, entered with the given field values:
\* on a call, and again on the recursion that follows a merge.
next_comment(cs, hs, ms, nfetch) ==
    IF cs = <<>>
    THEN IF ms = <<>>
         THEN /\ result' = None
              /\ comments' = cs
              /\ comment_hashes' = hs
              /\ more' = ms
              /\ more_item' = NoMore
              /\ pc' = "idle"
              /\ fetches' = nfetch
              /\ UNCHANGED <<yielded, resolved>>
         ELSE /\ more_item' = Head(ms)
              /\ more' = Tail(ms)
              /\ resolved' = Append(resolved, Head(ms))
              /\ comments' = cs
              /\ comment_hashes' = hs
              /\ result' = NoResult
              /\ pc' = "fetching"
              /\ fetches' = nfetch + 1
              /\ UNCHANGED yielded
    ELSE /\ result' = Head(cs)
         /\ comments' = Tail(cs)
         /\ comment_hashes' = hs
         /\ more' = ms
         /\ more_item' = NoMore
         /\ yielded' = Append(yielded, Head(cs))
         /\ pc' = "idle"
         /\ fetches' = nfetch
         /\ UNCHANGED resolved

\* The caller polls the list for its next comment.
Call ==
    /\ pc = "idle"
    /\ next_comment(comments, comment_hashes, more, 0)
    /\ after_end' = (result = None)
    /\ UNCHANGED <<parent_id, batch, replies, orphanage, nodes_served,
                   groups_served, last_page, failure>>
    /\ UNCHANGED <<listingVars, clientVars, writeVars>>

\* The resolution without self.comment_hashes = HashMap::new(): the merge
\* starts from the positions registered before the comments were drained.
Resolve_KeepHashes(things) ==
    LET new_listing == New(things, Empty)
        more1 == more_append(more, new_listing.more)
        st0 == [comments |-> comments, comment_hashes |-> comment_hashes,
                replies |-> replies, orphanage |-> orphanage, ok |-> TRUE]
        st == merge_more_comments(st0, new_listing.comments)
    IN /\ replies' = st.replies
       /\ orphanage' = st.orphanage
       /\ last_page' = new_listing.comments
       /\ IF st.ok
          THEN next_comment(st.comments, st.comment_hashes, more1, fetches)
          ELSE /\ pc' = "panicked"
               /\ comments' = st.comments
               /\ comment_hashes' = st.comment_hashes
               /\ more' = more1
               /\ UNCHANGED <<more_item, result, yielded, resolved, fetches>>

\* What next_comment does with the listing fetch_more returned.
Resolve(things) ==
    LET new_listing == New(things, Empty)
        more1 == more_append(more, new_listing.more)
        st0 == [comments |-> comments, comment_hashes |-> EmptyMap,
                replies |-> replies, orphanage |-> orphanage, ok |-> TRUE]
        st == merge_more_comments(st0, new_listing.comments)
    IN /\ replies' = st.replies
       /\ orphanage' = st.orphanage
       /\ last_page' = new_listing.comments
       /\ IF st.ok
          THEN next_comment(st.comments, st.comment_hashes, more1, fetches)
          ELSE /\ pc' = "panicked"
               /\ comments' = st.comments
               /\ comment_hashes' = st.comment_hashes
               /\ more' = more1
               /\ UNCHANGED <<more_item, result, yielded, resolved, fetches>>

\* fetch_more: the response is a success and carries "data".
FetchOk ==
    /\ pc = "fetching"
    /\ \E shape \in Shapes :
          /\ Fits(shape, nodes_served, groups_served)
          /\ nodes_served' = nodes_served + CountKind(shape, "t1")
          /\ groups_served' = groups_served + CountKind(shape, "more")
          /\ Resolve(MakeThings(shape, nodes_served, groups_served))
    /\ UNCHANGED <<parent_id, batch, failure, after_end>>
    /\ UNCHANGED <<listingVars, clientVars, writeVars>>

\* fetch_more that unwraps the "data" member: a response without it panics.
FetchNoData_Panics ==
    /\ pc = "fetching"
    /\ pc' = "panicked"
    /\ UNCHANGED <<parent_id, batch, comments, comment_hashes, more, replies,
                   orphanage, more_item, result, nodes_served, groups_served,
                   last_page, yielded, resolved, fetches, failure, after_end>>
    /\ UNCHANGED <<listingVars, clientVars, writeVars>>

\* fetch_more: the response is a success without a "data" member.
FetchNoData ==
    /\ pc = "fetching"
    /\ Resolve(<<>>)
    /\ UNCHANGED <<parent_id, batch, nodes_served, groups_served, failure,
                   after_end>>
    /\ UNCHANGED <<listingVars, clientVars, writeVars>>

\* fetch_more: the request fails ("transport"), the status is not a success
\* ("http") or the body is not the expected JSON ("malformed").
FetchFail ==
    /\ pc = "fetching"
    /\ \E kind \in {"transport", "http", "malformed"} : failure' = kind
    /\ pc' = "panicked"
    /\ UNCHANGED <<parent_id, batch, comments, comment_hashes, more, replies,
                   orphanage, more_item, result, nodes_served, groups_served,
                   last_page, yielded, resolved, fetches, after_end>>
    /\ UNCHANGED <<listingVars, clientVars, writeVars>>

\* ------------------------------------------------------------ UserListing
\* The users of one page, named in the order the API lists them.
Page(first, k) == [i \in 1..k |-> first + i]

\* Iterator::next giving up after one fetch: a page without users ends the
\* call with None although the cursor is still set.
l_next_OneFetch(ch, af, nfetch) ==
    IF ch = <<>>
    THEN IF af = NoCursor \/ nfetch >= 1
         THEN /\ l_result' = None
              /\ l_children' = ch
              /\ l_after' = af
              /\ l_pc' = "idle"
              /\ l_fetches' = nfetch
              /\ UNCHANGED l_yielded
         ELSE /\ l_result' = NoResult
              /\ l_children' = ch
              /\ l_after' = af
              /\ l_pc' = "fetching"
              /\ l_fetches' = nfetch + 1
              /\ UNCHANGED l_yielded
    ELSE /\ l_result' = Head(ch)
         /\ l_children' = Tail(ch)
         /\ l_after' = af
         /\ l_yielded' = Append(l_yielded, Head(ch))
         /\ l_pc' = "idle"
         /\ l_fetches' = nfetch

\* Iterator::next taking the user at the back of the buffer (pop) instead of
\* the one at the front.
l_next_Pop(ch, af, nfetch) ==
    IF ch = <<>>
    THEN IF af = NoCursor
         THEN /\ l_result' = None
              /\ l_children' = ch
              /\ l_after' = af
              /\ l_pc' = "idle"
              /\ l_fetches' = nfetch
              /\ UNCHANGED l_yielded
         ELSE /\ l_result' = NoResult
              /\ l_children' = ch
              /\ l_after' = af
              /\ l_pc' = "fetching"
              /\ l_fetches' = nfetch + 1
              /\ UNCHANGED l_yielded
    ELSE /\ l_result' = ch[Len(ch)]
         /\ l_children' = SubSeq(ch, 1, Len(ch) - 1)
         /\ l_after' = af
         /\ l_yielded' = Append(l_yielded, ch[Len(ch)])
         /\ l_pc' = "idle"
         /\ l_fetches' = nfetch

\* Iterator::next without the test of the cursor: an empty buffer always
\* leads to a fetch.
l_next_NoCursorTest(ch, af, nfetch) ==
    IF ch = <<>>
    THEN /\ l_result' = NoResult
         /\ l_children' = ch
         /\ l_after' = af
         /\ l_pc' = "fetching"
         /\ l_fetches' = nfetch + 1
         /\ UNCHANGED l_yielded
    ELSE /\ l_result' = Head(ch)
         /\ l_children' = Tail(ch)
         /\ l_after' = af
         /\ l_yielded' = Append(l_yielded, Head(ch))
         /\ l_pc' = "idle"
         /\ l_fetches' = nfetch

\* The body of Iterator::next for UserListing, entered with the given field
\* values: on a call, and again on the recursion that follows a fetch.
l_next(ch, af, nfetch) ==
    IF ch = <<>>
    THEN IF af = NoCursor
         THEN /\ l_result' = None
              /\ l_children' = ch
              /\ l_after' = af
              /\ l_pc' = "idle"
              /\ l_fetches' = nfetch
              /\ UNCHANGED l_yielded
         ELSE /\ l_result' = NoResult
              /\ l_children' = ch
              /\ l_after' = af
              /\ l_pc' = "fetching"
              /\ l_fetches' = nfetch + 1
              /\ UNCHANGED l_yielded
    ELSE /\ l_result' = Head(ch)
         /\ l_children' = Tail(ch)
         /\ l_after' = af
         /\ l_yielded' = Append(l_yielded, Head(ch))
         /\ l_pc' = "idle"
         /\ l_fetches' = nfetch

\* The caller asks the listing for its next user.
L_Call ==
    /\ l_pc = "idle"
    /\ l_next(l_children, l_after, 0)
    /\ l_after_end' = (l_result = None)
    /\ l_call_after' = l_after
    /\ UNCHANGED l_pages
    /\ UNCHANGED <<l_served, l_failure>>
    /\ UNCHANGED <<treeVars, clientVars, writeVars>>

\* fetch_after returns the next page: its users and its continuation.
L_FetchOk ==
    /\ l_pc = "fetching"
    /\ \E k \in 0..MaxPageItems, new_after \in {NoCursor, l_after + 1} :
          /\ l_served + k <= MaxItems
          /\ new_after <= MaxCursor
          /\ l_served' = l_served + k
          /\ l_pages' = Append(l_pages, [n |-> k, after |-> new_after])
          /\ l_next(l_children \o Page(l_served, k), new_after, l_fetches)
    /\ UNCHANGED <<l_failure, l_after_end, l_call_after>>
    /\ UNCHANGED <<treeVars, clientVars, writeVars>>

\* fetch_after: the request fails ("transport"), the status is not a success
\* ("http") or the body is not a listing ("malformed").
L_FetchFail ==
    /\ l_pc = "fetching"
    /\ \E kind \in {"transport", "http", "malformed"} : l_failure' = kind
    /\ l_pc' = "panicked"
    /\ UNCHANGED <<l_children, l_after, l_result, l_served, l_yielded,
                   l_fetches, l_after_end, l_call_after, l_pages>>
    /\ UNCHANGED <<treeVars, clientVars, writeVars>>

\* ----------------------------------------------------------- RedditClient
\* Authenticator::needs_token_refresh
needs_token_refresh ==
    IF auth_kind = "anonymous" THEN FALSE
    ELSE IF expire_time = "none" THEN TRUE
    ELSE expire_time = "passed"

\* Authenticator::oauth
oauth(kind) == kind = "password"

\* The oauth_required argument of the calls the library makes through get_json,
\* post_json, post_success and post: false at every call site.
OauthRequired == {FALSE}

\* build_url with the regular stem whenever OAuth is not required.
build_url_ApiUnlessRequired(oauth_required, oauth_supported) ==
    IF oauth_required
    THEN IF oauth_supported THEN "oauth" ELSE "assert"
    ELSE "api"

\* RedditClient::build_url: the stem of the URL, or the failed assertion.
build_url(oauth_required, oauth_supported) ==
    IF oauth_required \/ oauth_supported
    THEN IF oauth_supported THEN "oauth" ELSE "assert"
    ELSE "api"

\* What the token endpoint does with a login.
LoginOutcomes == {"ok", "transport", "http", "malformed"}

\* A login that forgets the token it had when the request fails.
login_ClearsOnFailure(kind, token, expire, outcome) ==
    IF kind = "anonymous"
    THEN [access_token |-> token, expire_time |-> expire, ok |-> TRUE]
    ELSE IF outcome = "ok"
    THEN [access_token |-> TRUE, expire_time |-> "ahead", ok |-> TRUE]
    ELSE [access_token |-> FALSE, expire_time |-> "none", ok |-> FALSE]

\* Authenticator::login: the fields of the authenticator after the call and
\* whether it returned Ok.
login(kind, token, expire, outcome) ==
    IF kind = "anonymous"
    THEN [access_token |-> token, expire_time |-> expire, ok |-> TRUE]
    ELSE IF outcome = "ok"
    THEN [access_token |-> TRUE, expire_time |-> "ahead", ok |-> TRUE]
    ELSE [access_token |-> token, expire_time |-> expire, ok |-> FALSE]

\* headers() and logout() of the authenticator can read the token: the
\* PasswordAuthenticator unwraps access_token.
token_readable == auth_kind = "anonymous" \/ access_token

\* Mutex::lock hands out the guard at once.
lock_free_Always(l) == TRUE

\* Mutex::lock in get_authenticator returns once no guard is out.
lock_free(l) == l = Unlocked

\* Drop that does not look at auto_logout.
drop_logs_out_Always(flag) == TRUE

\* if self.auto_logout
drop_logs_out(flag) == flag

AllIdle == \A t \in Threads : t_pc[t] = "idle"

\* get_authenticator on a thread: the guard is handed out when no other guard
\* is out; the unwrap panics when a thread has panicked under a guard before.
Acquire(t, next) ==
    /\ lock_free(lock)
    /\ IF poisoned
       THEN /\ t_pc' = [t_pc EXCEPT ![t] = "poison_panicked"]
            /\ UNCHANGED lock
       ELSE /\ t_pc' = [t_pc EXCEPT ![t] = next]
            /\ lock' = t

\* RedditClient::new: the client is built with auto_logout set and logs in.
\* A login that fails makes the expect panic while the guard of the statement
\* is out: unwinding drops the guard, which poisons the mutex, and then the
\* client, whose Drop panics at the unwrap of get_authenticator before logout
\* is called.
ClientNew ==
    /\ c_state = "unborn"
    /\ lock_free(lock)
    /\ auto_logout' = TRUE
    /\ \E outcome \in LoginOutcomes :
          LET after == login(auth_kind, access_token, expire_time, outcome) IN
          /\ access_token' = after.access_token
          /\ expire_time' = after.expire_time
          /\ IF after.ok
             THEN /\ c_state' = "live"
                  /\ logins' = logins + 1
                  /\ UNCHANGED poisoned
             ELSE /\ c_state' = "new_panicked"
                  /\ poisoned' = TRUE
                  /\ UNCHANGED logins
    /\ UNCHANGED <<auth_kind, lock, t_pc, t_op, t_stale, t_login0, t_url,
                   logouts, set_called>>
    /\ UNCHANGED <<treeVars, listingVars, writeVars>>

\* RedditClient::set_auto_logout
SetAutoLogout ==
    /\ c_state = "live"
    /\ AllIdle
    /\ \E val \in BOOLEAN : auto_logout' = val
    /\ set_called' = TRUE
    /\ UNCHANGED <<auth_kind, access_token, expire_time, c_state, lock,
                   poisoned, t_pc, t_op, t_stale, t_login0, t_url, logins,
                   logouts>>
    /\ UNCHANGED <<treeVars, listingVars, writeVars>>

\* The clock reaches expire_time.
Expire ==
    /\ c_state = "live"
    /\ expire_time = "ahead"
    /\ expire_time' = "passed"
    /\ UNCHANGED <<auth_kind, access_token, c_state, auto_logout, lock,
                   poisoned, t_pc, t_op, t_stale, t_login0, t_url, logins,
                   logouts, set_called>>
    /\ UNCHANGED <<treeVars, listingVars, writeVars>>

\* The owner of the authenticator, who keeps the Arc handed to new, locks it
\* and awaits login (or refresh_token, which is login) on it.
Relogin ==
    /\ c_state = "live"
    /\ lock_free(lock)
    /\ ~poisoned
    /\ logins < MaxLogins
    /\ \E outcome \in LoginOutcomes :
          LET after == login(auth_kind, access_token, expire_time, outcome) IN
          /\ access_token' = after.access_token
          /\ expire_time' = after.expire_time
          /\ logins' = IF after.ok THEN logins + 1 ELSE logins
    /\ UNCHANGED <<auth_kind, c_state, auto_logout, lock, poisoned, t_pc, t_op,
                   t_stale, t_login0, t_url, logouts, set_called>>
    /\ UNCHANGED <<treeVars, listingVars, writeVars>>

\* A thread enters get_json, post_json, post_success or fetch_more.  The
\* first three await ensure_authenticated; fetch_more only builds its future
\* and goes on to post.
Start(t) ==
    /\ c_state = "live"
    /\ t_pc[t] = "idle"
    /\ \E op \in {"get_json", "post_json", "post_success", "fetch_more"} :
          /\ t_op' = [t_op EXCEPT ![t] = op]
          /\ t_pc' = [t_pc EXCEPT ![t] = IF op = "fetch_more" THEN "build"
                                        ELSE "ensure"]
    /\ t_stale' = [t_stale EXCEPT ![t] = needs_token_refresh]
    /\ t_login0' = [t_login0 EXCEPT ![t] = logins]
    /\ t_url' = [t_url EXCEPT ![t] = "none"]
    /\ UNCHANGED <<auth_kind, access_token, expire_time, c_state, auto_logout,
                   lock, poisoned, logins, logouts, set_called>>
    /\ UNCHANGED <<treeVars, listingVars, writeVars>>

\* ensure_authenticated: get_authenticator() for the test of the if.
EnsureLock(t) ==
    /\ t_pc[t] = "ensure"
    /\ Acquire(t, "checking")
    /\ UNCHANGED <<auth_kind, access_token, expire_time, c_state, auto_logout,
                   poisoned, t_op, t_stale, t_login0, t_url, logins, logouts,
                   set_called>>
    /\ UNCHANGED <<treeVars, listingVars, writeVars>>

\* ensure_authenticated with the guard of the test kept for the block, as the
\* scrutinee of an if let would be.
EnsureCheck_KeepsGuard(t) ==
    /\ t_pc[t] = "checking"
    /\ t_pc' = [t_pc EXCEPT ![t] = IF needs_token_refresh THEN "want_refresh"
                                  ELSE "build"]
    /\ UNCHANGED <<auth_kind, access_token, expire_time, c_state, auto_logout,
                   lock, poisoned, t_op, t_stale, t_login0, t_url, logins,
                   logouts, set_called>>
    /\ UNCHANGED <<treeVars, listingVars, writeVars>>

\* ensure_authenticated: needs_token_refresh() is read and the guard of the
\* test is dropped before the block is entered.
EnsureCheck(t) ==
    /\ t_pc[t] = "checking"
    /\ lock' = Unlocked
    /\ t_pc' = [t_pc EXCEPT ![t] = IF needs_token_refresh THEN "want_refresh"
                                  ELSE "build"]
    /\ UNCHANGED <<auth_kind, access_token, expire_time, c_state, auto_logout,
                   poisoned, t_op, t_stale, t_login0, t_url, logins, logouts,
                   set_called>>
    /\ UNCHANGED <<treeVars, listingVars, writeVars>>

\* ensure_authenticated: let mut guard = self.get_authenticator().
RefreshLock(t) ==
    /\ t_pc[t] = "want_refresh"
    /\ Acquire(t, "refreshing")
    /\ UNCHANGED <<auth_kind, access_token, expire_time, c_state, auto_logout,
                   poisoned, t_op, t_stale, t_login0, t_url, logins, logouts,
                   set_called>>
    /\ UNCHANGED <<treeVars, listingVars, writeVars>>

\* ensure_authenticated: guard.refresh_token(..) builds the future of the
\* login and drops it unpolled, so the authenticator stays as it is; the
\* guard is dropped at the end of the block.
Refresh(t) ==
    /\ t_pc[t] = "refreshing"
    /\ lock' = Unlocked
    /\ t_pc' = [t_pc EXCEPT ![t] = "build"]
    /\ UNCHANGED <<auth_kind, access_token, expire_time, c_state, auto_logout,
                   poisoned, t_op, t_stale, t_login0, t_url, logins, logouts,
                   set_called>>
    /\ UNCHANGED <<treeVars, listingVars, writeVars>>

\* get / post: let mut authenticator = self.get_authenticator().
BuildLock(t) ==
    /\ t_pc[t] = "build"
    /\ Acquire(t, "headers")
    /\ UNCHANGED <<auth_kind, access_token, expire_time, c_state, auto_logout,
                   poisoned, t_op, t_stale, t_login0, t_url, logins, logouts,
                   set_called>>
    /\ UNCHANGED <<treeVars, listingVars, writeVars>>

\* get / post: build_url and headers() under the guard, which is dropped when
\* the builder is returned; the request is then sent.  A failed assertion of
\* build_url and an unwrap of an unset token in headers() panic under the
\* guard.
Headers(t) ==
    /\ t_pc[t] = "headers"
    /\ lock' = Unlocked
    /\ \E oauth_required \in OauthRequired :
          LET stem == build_url(oauth_required, oauth(auth_kind)) IN
          IF stem = "assert"
          THEN /\ t_pc' = [t_pc EXCEPT ![t] = "assert_panicked"]
               /\ poisoned' = TRUE
               /\ UNCHANGED t_url
          ELSE IF ~token_readable
          THEN /\ t_pc' = [t_pc EXCEPT ![t] = "token_panicked"]
               /\ poisoned' = TRUE
               /\ t_url' = [t_url EXCEPT ![t] = stem]
          ELSE /\ t_pc' = [t_pc EXCEPT ![t] = "sending"]
               /\ t_url' = [t_url EXCEPT ![t] = stem]
               /\ UNCHANGED poisoned
    /\ UNCHANGED <<auth_kind, access_token, expire_time, c_state, auto_logout,
                   t_op, t_stale, t_login0, logins, logouts, set_called>>
    /\ UNCHANGED <<treeVars, listingVars, writeVars>>

\* The response arrives and the call returns.
Respond(t) ==
    /\ t_pc[t] = "sending"
    /\ t_pc' = [t_pc EXCEPT ![t] = "idle"]
    /\ t_op' = [t_op EXCEPT ![t] = "none"]
    /\ UNCHANGED <<auth_kind, access_token, expire_time, c_state, auto_logout,
                   lock, poisoned, t_stale, t_login0, t_url, logins, logouts,
                   set_called>>
    /\ UNCHANGED <<treeVars, listingVars, writeVars>>

\* Drop for RedditClient: logout is called under the guard when auto_logout is
\* set; its result is ignored.  The unwrap of get_authenticator panics on a
\* poisoned mutex before logout is called; logout panics when it reads an
\* unset token or when its request cannot be sent.
ClientDrop ==
    /\ c_state = "live"
    /\ AllIdle
    /\ IF drop_logs_out(auto_logout)
       THEN /\ lock_free(lock)
            /\ IF poisoned
               THEN /\ c_state' = "drop_panicked"
                    /\ UNCHANGED logouts
               ELSE /\ logouts' = logouts + 1
                    /\ IF token_readable
                       THEN \/ c_state' = "dropped"
                            \/ auth_kind = "password" /\ c_state' = "drop_panicked"
                       ELSE c_state' = "drop_panicked"
       ELSE /\ c_state' = "dropped"
            /\ UNCHANGED logouts
    /\ UNCHANGED <<auth_kind, access_token, expire_time, auto_logout, lock,
                   poisoned, t_pc, t_op, t_stale, t_login0, t_url, logins,
                   set_called>>
    /\ UNCHANGED <<treeVars, listingVars, writeVars>>

\* ------------------------------------------------------- write actions
\* The texts a body can hold.
Texts == {"t1", "t2"}

\* The cached fields the write actions mirror.
Fields ==
    [locked : BOOLEAN, hidden : BOOLEAN, stickied : BOOLEAN, over_18 : BOOLEAN,
     distinguished : {"none", "moderator"}, body : Texts]

\* The write actions; edit carries the new text.
WriteOps ==
    [name : {"lock", "unlock", "hide", "show", "stick", "unstick", "mark_nsfw",
             "unmark_nsfw", "distinguish", "undistinguish"}, text : {"none"}]
        \cup [name : {"edit"}, text : Texts]

\* The assignment inside if let Ok(_) = res of each write action.
store(data, op) ==
    CASE op.name = "lock" -> [data EXCEPT !.locked = TRUE]
      [] op.name = "unlock" -> [data EXCEPT !.locked = FALSE]
      [] op.name = "hide" -> [data EXCEPT !.hidden = TRUE]
      [] op.name = "show" -> [data EXCEPT !.hidden = FALSE]
      [] op.name = "stick" -> [data EXCEPT !.stickied = TRUE]
      [] op.name = "unstick" -> [data EXCEPT !.stickied = FALSE]
      [] op.name = "mark_nsfw" -> [data EXCEPT !.over_18 = TRUE]
      [] op.name = "unmark_nsfw" -> [data EXCEPT !.over_18 = FALSE]
      [] op.name = "distinguish" -> [data EXCEPT !.distinguished = "moderator"]
      [] op.name = "undistinguish" -> [data EXCEPT !.distinguished = "none"]
      [] op.name = "edit" -> [data EXCEPT !.body = op.text]

\* A write action is called: it builds its body and awaits post_success.
W_Call ==
    /\ w_pc = "idle"
    /\ \E op \in WriteOps : w_op' = op
    /\ w_pc' = "posting"
    /\ w_before' = w_data
    /\ w_result' = "none"
    /\ UNCHANGED w_data
    /\ UNCHANGED <<treeVars, listingVars, clientVars>>

\* post_success: the response has a 2xx status; Ok(()) is returned, the write
\* action stores the new value and returns Ok.
W_Success ==
    /\ w_pc = "posting"
    /\ w_data' = store(w_data, w_op)
    /\ w_result' = "ok"
    /\ w_pc' = "idle"
    /\ UNCHANGED <<w_op, w_before>>
    /\ UNCHANGED <<treeVars, listingVars, clientVars>>

\* post_success: the response has another status; Err(HTTPError) is returned
\* and handed on by the write action.
W_HttpError ==
    /\ w_pc = "posting"
    /\ w_result' = "err"
    /\ w_pc' = "idle"
    /\ UNCHANGED <<w_data, w_op, w_before>>
    /\ UNCHANGED <<treeVars, listingVars, clientVars>>

\* post_success: the request cannot be sent or gets no response; the unwrap
\* of the request's result panics.
W_TransportError ==
    /\ w_pc = "posting"
    /\ w_pc' = "panicked"
    /\ UNCHANGED <<w_data, w_op, w_result, w_before>>
    /\ UNCHANGED <<treeVars, listingVars, clientVars>>

\* --------------------------------------------------------- specification
\* A CommentList built by CommentList::new from any listing.
InitTree ==
    /\ parent_id \in ParentMaps
    /\ \E shape \in Shapes :
          /\ Fits(shape, 0, 0)
          /\ batch = MakeThings(shape, 0, 0)
          /\ nodes_served = CountKind(shape, "t1")
          /\ groups_served = CountKind(shape, "more")
    /\ comments = New(batch, Empty).comments
    /\ comment_hashes = New(batch, Empty).comment_hashes
    /\ more = New(batch, Empty).more
    /\ replies = [n \in Nodes |-> <<>>]
    /\ orphanage = EmptyMap
    /\ pc = "idle"
    /\ more_item = NoMore
    /\ result = NoResult
    /\ last_page = <<>>
    /\ yielded = <<>>
    /\ resolved = <<>>
    /\ fetches = 0
    /\ failure = "none"
    /\ after_end = FALSE

\* A CommentList built by CommentList::empty.
InitEmptyTree ==
    /\ parent_id = [n \in Nodes |-> ROOT]
    /\ batch = <<>>
    /\ nodes_served = 0
    /\ groups_served = 0
    /\ comments = Empty.comments
    /\ comment_hashes = Empty.comment_hashes
    /\ more = Empty.more
    /\ replies = [n \in Nodes |-> <<>>]
    /\ orphanage = EmptyMap
    /\ pc = "idle"
    /\ more_item = NoMore
    /\ result = NoResult
    /\ last_page = <<>>
    /\ yielded = <<>>
    /\ resolved = <<>>
    /\ fetches = 0
    /\ failure = "none"
    /\ after_end = FALSE

\* A UserListing built by UserListing::new from the first page.
InitListing ==
    /\ l_after \in {NoCursor, 1}
    /\ \E k \in 0..MaxPageItems :
          /\ l_children = Page(0, k)
          /\ l_served = k
          /\ l_pages = <<[n |-> k, after |-> l_after]>>
    /\ l_call_after = l_after
    /\ l_pc = "idle"
    /\ l_result = NoResult
    /\ l_yielded = <<>>
    /\ l_fetches = 0
    /\ l_failure = "none"
    /\ l_after_end = FALSE

\* A UserListing whose only page is empty and has no continuation.
InitEmptyListing ==
    /\ l_children = <<>>
    /\ l_served = 0
    /\ l_after = NoCursor
    /\ l_pages = <<[n |-> 0, after |-> NoCursor]>>
    /\ l_call_after = NoCursor
    /\ l_pc = "idle"
    /\ l_result = NoResult
    /\ l_yielded = <<>>
    /\ l_fetches = 0
    /\ l_failure = "none"
    /\ l_after_end = FALSE

\* AnonymousAuthenticator::new or PasswordAuthenticator::new has built the
\* authenticator; RedditClient::new has not run yet.
InitAuth ==
    /\ auth_kind \in {"anonymous", "password"}
    /\ access_token = FALSE
    /\ expire_time = "none"
    /\ c_state = "unborn"
    /\ auto_logout = FALSE
    /\ lock = Unlocked
    /\ t_pc = [t \in Threads |-> "idle"]
    /\ t_op = [t \in Threads |-> "none"]
    /\ t_stale = [t \in Threads |-> FALSE]
    /\ t_login0 = [t \in Threads |-> 0]
    /\ logins = 0
    /\ logouts = 0
    /\ set_called = FALSE
    /\ poisoned = FALSE
    /\ t_url = [t \in Threads |-> "none"]

\* The client of the lists: an anonymous one, not looked at any further.
InitAnonymous ==
    /\ InitAuth
    /\ auth_kind = "anonymous"

\* A Submission, Comment or Message as the API described it, with no write
\* action called yet.
InitWrite ==
    /\ w_data \in Fields
    /\ w_pc = "idle"
    /\ w_op = [name |-> "none", text |-> "none"]
    /\ w_result = "none"
    /\ w_before = w_data

\* The object no write action is called on.
InitNoWrite ==
    /\ InitWrite
    /\ w_data = [locked |-> FALSE, hidden |-> FALSE, stickied |-> FALSE,
                 over_18 |-> FALSE, distinguished |-> "none", body |-> "t1"]

\* The program walks a comment tree or a user listing; the other one is empty.
Init ==
    /\ \/ InitTree /\ InitEmptyListing
       \/ InitEmptyTree /\ InitListing
    /\ InitAnonymous
    /\ InitNoWrite

Next ==
    \/ Call
    \/ FetchOk
    \/ FetchNoData
    \/ FetchFail
    \/ L_Call
    \/ L_FetchOk
    \/ L_FetchFail

Spec == Init /\ [][Next]_vars

\* The request next_comment awaits in fetch_more is answered: the call is
\* resumed with the response unless the request fails.
SpecLive == Init /\ [][Next]_vars /\ WF_vars(FetchOk \/ FetchNoData)

\* Threads that share one RedditClient and send requests through it.
InitClient ==
    /\ InitEmptyTree
    /\ InitEmptyListing
    /\ InitAuth
    /\ InitNoWrite

NextClient ==
    \/ ClientNew
    \/ SetAutoLogout
    \/ Expire
    \/ Relogin
    \/ ClientDrop
    \/ \E t \in Threads :
          \/ Start(t)
          \/ EnsureLock(t)
          \/ EnsureCheck(t)
          \/ RefreshLock(t)
          \/ Refresh(t)
          \/ BuildLock(t)
          \/ Headers(t)
          \/ Respond(t)

SpecClient == InitClient /\ [][NextClient]_vars

\* A thread that holds the guard or has its request out goes on, and a thread
\* that asks for the guard gets it if the mutex is free again and again.
SpecClientLive ==
    /\ InitClient
    /\ [][NextClient]_vars
    /\ \A t \in Threads :
           /\ WF_vars(EnsureCheck(t) \/ Refresh(t) \/ Headers(t) \/ Respond(t))
           /\ SF_vars(EnsureLock(t) \/ RefreshLock(t) \/ BuildLock(t))

\* Write actions called one after the other on one object.
InitWrites ==
    /\ InitEmptyTree
    /\ InitEmptyListing
    /\ InitAnonymous
    /\ InitWrite

NextWrites == W_Call \/ W_Success \/ W_HttpError \/ W_TransportError

SpecWrites == InitWrites /\ [][NextWrites]_vars

\* ------------------------------------------------------------- properties
Elems(seq) == {seq[i] : i \in DOMAIN seq}

\* The comments of the listing CommentList::new was given, in its order.
BatchNodes == New(batch, Empty).comments

\* The listing CommentList::new was given holds no 'more' thing.
BatchHasNoMore == New(batch, Empty).more = <<>>

TopLevel(seq) == SelectSeq(seq, LAMBDA n : parent_id[n] = ROOT)

Increasing(seq) == \A i, j \in DOMAIN seq : i < j => seq[i] < seq[j]

\* C1: for a flat initial batch without placeholders, next_comment yields
\* exactly the comments whose parent is the root, in batch order, and a comment
\* whose parent is another comment of the batch is found among that parent's
\* replies and is not yielded.
C1_FlatBatchYieldsTopLevel ==
    (BatchHasNoMore /\ pc = "idle" /\ result = None) =>
        /\ yielded = TopLevel(BatchNodes)
        /\ \A n \in Elems(BatchNodes) :
              parent_id[n] \in Elems(BatchNodes) =>
                  /\ n \in Elems(replies[parent_id[n]])
                  /\ n \notin Elems(yielded)

\* The batch [B(parent A), P] of the reunion scenario, where P resolves to
\* [A(parent ROOT)] if it has been resolved at all.
ReunionScenario ==
    /\ batch = <<[kind |-> "t1", id |-> 1], [kind |-> "more", id |-> 1]>>
    /\ parent_id[1] = 2
    /\ parent_id[2] = ROOT
    /\ \/ resolved = <<>>
       \/ resolved = <<1>> /\ pc = "fetching"
       \/ resolved = <<1>> /\ last_page = <<2>> /\ groups_served = 1

\* C2: with initial batch [B(parent A)] and one placeholder P that resolves to
\* [A(parent ROOT)], the first next_comment resolves P, and only P, and yields
\* A, and B is the reply of A.
C2_OrphanReunited ==
    (ReunionScenario /\ yielded # <<>>) =>
        /\ yielded[1] = 2
        /\ resolved = <<1>>
        /\ replies[2] = <<1>>

\* The tree a merge leaves behind, as the set of its parent-child edges: the
\* comments of the list hang under ROOT, replies under their comment.
RECURSIVE Reach(_, _, _)
Reach(rs, S, k) ==
    IF k = 0 THEN S
    ELSE Reach(rs, S \cup UNION {Elems(rs[n]) : n \in S}, k - 1)

Edges(st) ==
    LET inTree == Reach(st.replies, Elems(st.comments), MaxNodes) IN
    {<<ROOT, c>> : c \in Elems(st.comments)}
        \cup UNION {{<<n, c>> : c \in Elems(st.replies[n])} : n \in inTree}

\* A list with no comments, into which a listing is merged.
Fresh ==
    [comments |-> <<>>, comment_hashes |-> EmptyMap,
     replies |-> [n \in Nodes |-> <<>>], orphanage |-> EmptyMap, ok |-> TRUE]

Orders(seq) ==
    {p \in [DOMAIN seq -> Elems(seq)] : \A i, j \in DOMAIN seq : i # j => p[i] # p[j]}

\* The k-th ancestor of a comment, ROOT once the root is reached.
RECURSIVE Up(_, _)
Up(m, i) == IF i = 0 \/ m = ROOT THEN m ELSE Up(parent_id[m], i - 1)

\* C3: merging the comments of a listing in any order leaves the same tree as
\* merging them in the order the API gave, and that tree holds every comment
\* of the listing whose ancestors up to the root are in the listing, under its
\* parent.
C3_MergeOrderIndependent ==
    LET tree == Edges(merge_more_comments(Fresh, last_page)) IN
    /\ \A p \in Orders(last_page) :
          Edges(merge_more_comments(Fresh, p)) = tree
    /\ \A n \in Elems(last_page) :
          (\A k \in 0..MaxNodes : Up(n, k) \in Elems(last_page) \cup {ROOT})
          => <<parent_id[n], n>> \in tree

\* C4: when the fetch of a resolution has failed, the group it was for is
\* still the first of more, and the list can be polled again.
C4_FailedGroupStaysPending ==
    failure # "none" =>
        /\ more # <<>>
        /\ Head(more) = more_item
        /\ pc = "idle"

\* C5: a failed fetch never makes next_comment or next panic.
C5_FailureReturnedNotPanicked ==
    /\ pc # "panicked"
    /\ l_pc # "panicked"

\* C6: once next_comment or next has returned None, a later call returns None
\* again, sends no request and leaves comments, more, the hashes, the buffer
\* and the cursor as they were.
C6_ExhaustionIdempotent ==
    [][/\ (pc = "idle" /\ result = None) =>
              /\ pc' = "idle"
              /\ result' = None
              /\ fetches' \in {0, fetches}
              /\ UNCHANGED <<comments, comment_hashes, more, replies, yielded,
                             resolved, nodes_served, groups_served, failure>>
       /\ (l_pc = "idle" /\ l_result = None) =>
              /\ l_pc' = "idle"
              /\ l_result' = None
              /\ l_fetches' \in {0, l_fetches}
              /\ UNCHANGED <<l_children, l_after, l_yielded, l_served,
                             l_failure>>]_vars

\* Both a comment list that had comments or groups and a listing that had
\* users or a cursor were polled again after they had returned None.
C6_Witness ==
    /\ after_end /\ result = None /\ pc = "idle"
    /\ l_after_end /\ l_result = None /\ l_pc = "idle"
    /\ (yielded # <<>> \/ resolved # <<>> \/ l_yielded # <<>> \/ l_fetches > 0)

\* C7: when the list is exhausted, a comment whose parent is not the root and
\* was never handed out has not been yielded and is not a reply of a yielded
\* comment.
C7_OrphansNeverYielded ==
    (pc = "idle" /\ result = None) =>
        \A n \in 1..nodes_served :
            (parent_id[n] # ROOT /\ parent_id[n] > nodes_served) =>
                /\ n \notin Elems(yielded)
                /\ \A y \in Elems(yielded) : n \notin Elems(replies[y])

\* How often a comment occurs in a sequence.
Occ(seq, n) == Cardinality({i \in DOMAIN seq : seq[i] = n})

RECURSIVE SumOver(_, _, _)
SumOver(f, S, n) ==
    IF S = {} THEN 0
    ELSE LET k == CHOOSE x \in S : TRUE IN Occ(f[k], n) + SumOver(f, S \ {k}, n)

\* How often a comment occurs in comments, in the reply lists, in the orphans
\* map and among the comments handed to the caller, taken together.
Places(n) ==
    Occ(comments, n) + Occ(yielded, n) + SumOver(replies, Nodes, n)
        + SumOver(orphanage, DOMAIN orphanage, n)

\* C8: no comment is in two places or twice in one place; a comment of the
\* listing merged last is in exactly one place, a comment the API has not
\* handed out is in none.
C8_NodeInExactlyOnePlace ==
    \A n \in Nodes :
        LET places == Places(n)
        IN /\ places <= 1
           /\ n \in Elems(last_page) => places = 1
           /\ n > nodes_served => places = 0

\* One merge has put a comment into comments, one under its parent and one,
\* with an orphan of its own, into the orphans map.
C8_Witness ==
    /\ last_page # <<>>
    /\ yielded # <<>>
    /\ \E n \in Elems(yielded) : replies[n] # <<>>
    /\ orphanage # EmptyMap

\* C9: the groups drained for resolution are the groups in the order in which
\* the API handed them out, and more holds the remaining ones in that order.
C9_GroupsInFirstSeenOrder ==
    /\ resolved = [i \in 1..Len(resolved) |-> i]
    /\ more = [i \in 1..Len(more) |-> Len(resolved) + i]
    /\ Len(resolved) + Len(more) = groups_served
    /\ pc = "fetching" => more_item = resolved[Len(resolved)]

\* A group found while resolving the first group waits behind the second
\* group of the initial batch, which is being resolved.
C9_Witness ==
    /\ CountKind([i \in DOMAIN batch |-> batch[i].kind], "more") = 2
    /\ resolved = <<1, 2>>
    /\ more = <<3>>
    /\ pc = "fetching"

\* C10: comments, every reply list and the comments handed to the caller are
\* in the order in which the API listed them.
C10_PageOrderKept ==
    /\ Increasing(comments)
    /\ \A n \in Nodes : Increasing(replies[n])
    /\ Increasing(yielded)

\* A resolved page put two comments under one parent and that parent was
\* yielded.
C10_Witness ==
    /\ Len(last_page) = 3
    /\ \E n \in Elems(yielded) : Len(replies[n]) = 2

C12_AtMostOneRetry ==
    l_fetches <= 2

\* C13: when the fetch inside next has failed, the buffer and the cursor are
\* what they were when next was called and next can be called again.
C13_FailedFetchLeavesListing ==
    l_failure # "none" =>
        /\ l_children = <<>>
        /\ l_after = l_call_after
        /\ l_pc = "idle"

\* C14: the users handed out followed by the users still buffered are the
\* users of all pages received, in page order and in-page order, each once;
\* next returns the user it has just taken, and returns None only when every
\* user received has been handed out.
C14_AllPagesInOrder ==
    /\ l_yielded \o l_children = [i \in 1..l_served |-> i]
    /\ (l_pc = "idle" /\ l_result = None) => Len(l_yielded) = l_served
    /\ (l_pc = "idle" /\ l_result > None) => l_result = l_yielded[Len(l_yielded)]

\* Pages of sizes 2, 2, 1 chained page1 -> page2 -> page3 -> None: the five
\* users were returned in order and the call after them returned None.
C14_Witness ==
    /\ l_pages = <<[n |-> 2, after |-> 1], [n |-> 2, after |-> 2],
                   [n |-> 1, after |-> NoCursor]>>
    /\ l_yielded = <<1, 2, 3, 4, 5>>
    /\ l_result = None
    /\ l_pc = "idle"

\* C15: a request is sent only with the buffer empty and the cursor set; with
\* users in the buffer next returns the front one and sends nothing; the
\* cursor always is the continuation of the page received last.
C15_FetchOnlyWhenEmptyAndCursor ==
    [][/\ (l_pc' = "fetching" /\ (l_pc = "idle" \/ l_pages' # l_pages)) =>
              /\ l_children' = <<>>
              /\ l_after' # NoCursor
              /\ l_pc = "idle" => (l_children = <<>> /\ l_after # NoCursor)
       /\ (l_pc = "idle" /\ l_children # <<>> /\ listingVars' # listingVars) =>
              /\ l_result' = Head(l_children)
              /\ l_children' = Tail(l_children)
              /\ l_pc' = "idle"
              /\ l_pages' = l_pages
       /\ l_after' = l_pages'[Len(l_pages')].after]_vars

\* The buffer of the first page was used up, a page was fetched and used up,
\* and the next page is being fetched with the continuation of that page.
C15_Witness ==
    /\ l_pc = "fetching"
    /\ Len(l_pages) = 2
    /\ l_pages[1].n > 0
    /\ l_pages[2].n > 0
    /\ Len(l_yielded) = l_served
    /\ l_after = 2

Before(k) == merge_more_comments(Fresh, SubSeq(last_page, 1, k - 1))

\* C20: merging a comment whose parent is in comment_hashes appends it to the
\* replies of that parent, which is the comment at the registered position,
\* and changes neither comments nor the hashes nor the orphans map.
C20_IndexedParentGetsReply ==
    \A k \in DOMAIN last_page :
        LET st == Before(k)
            item == last_page[k]
            p == parent_id[item]
            out == merge_comment(st, item)
        IN p \in DOMAIN st.comment_hashes =>
               /\ st.comments[st.comment_hashes[p] + 1] = p
               /\ out.replies = [st.replies EXCEPT ![p] = Append(@, item)]
               /\ out.comments = st.comments
               /\ out.comment_hashes = st.comment_hashes
               /\ out.orphanage = st.orphanage
               /\ out.ok

\* A comment was merged whose parent was in comment_hashes and had a reply
\* already.
C20_Witness ==
    \E k \in DOMAIN last_page :
        /\ parent_id[last_page[k]] \in DOMAIN Before(k).comment_hashes
        /\ Before(k).replies[parent_id[last_page[k]]] # <<>>

\* The threads that are in a stretch of code that runs under the guard.
UnderGuard == {t \in Threads : t_pc[t] \in {"checking", "refreshing", "headers"}}

\* C17: at most one thread is refreshing the token, no thread reads the
\* headers while another refreshes, and whoever does either holds the guard.
C17_RefreshAndHeadersExclusive ==
    /\ Cardinality({t \in Threads : t_pc[t] = "refreshing"}) <= 1
    /\ \A t1, t2 \in Threads :
          ~(t_pc[t1] = "refreshing" /\ t_pc[t2] = "headers")
    /\ Cardinality(UnderGuard) <= 1
    /\ \A t \in UnderGuard : lock = t

\* One thread refreshes under the guard while another, whose token is due as
\* well, waits for the guard to read the headers.
C17_Witness ==
    \E t1, t2 \in Threads :
        /\ t_pc[t1] = "refreshing"
        /\ t_pc[t2] = "build"
        /\ t_op[t2] # "fetch_more"
        /\ lock = t1

\* C18: a request that was begun when the token needed a refresh is sent only
\* after a login has completed since.
C18_NoStaleToken ==
    \A t \in Threads :
        (t_pc[t] = "sending" /\ t_stale[t]) => logins > t_login0[t]

\* The client has gone out of scope: it was dropped by its owner, or by the
\* unwinding of new.
OutOfScope == c_state \in {"dropped", "drop_panicked", "new_panicked"}

\* C19: every client that has gone out of scope has called logout once if
\* auto_logout was set and not at all if it was not.
C19_LogoutOnEveryDrop ==
    OutOfScope => logouts = (IF auto_logout THEN 1 ELSE 0)

\* C19: a client that new returned and that has been dropped has called logout
\* once if auto_logout was set and not at all if it was not; no logout is
\* called before, nor for a client whose login failed in new; a client on
\* which set_auto_logout was never called has auto_logout set.
C19_LogoutOnDrop ==
    /\ c_state \in {"dropped", "drop_panicked"} =>
           logouts = (IF auto_logout THEN 1 ELSE 0)
    /\ c_state \notin {"dropped", "drop_panicked"} => logouts = 0
    /\ (c_state = "live" /\ ~set_called) => auto_logout

\* A client was dropped after set_auto_logout(false) and has not logged out.
C19_Witness ==
    /\ c_state = "dropped"
    /\ set_called
    /\ ~auto_logout
    /\ logouts = 0
    /\ auth_kind = "password"

\* The comments stored in an orphans map, under whatever key.
OrphansOf(st) == UNION {Elems(st.orphanage[key]) : key \in DOMAIN st.orphanage}

\* The stored orphans that wait for comment n: those whose parent is n.
Waiting(st, n) == {m \in OrphansOf(st) : parent_id[m] = n}

\* C21: when a comment is merged for which orphans wait, all of them become
\* its replies and none of them stays in the orphans map.
C21_WaitingOrphansAdopted ==
    \A k \in DOMAIN last_page :
        LET st == Before(k)
            item == last_page[k]
            out == merge_comment(st, item)
        IN \A m \in Waiting(st, item) :
               /\ m \in Elems(out.replies[item])
               /\ m \notin OrphansOf(out)

\* C22: every comment in the orphans map is stored under the name of its
\* parent.
C22_OrphanKeyedByParent ==
    \A key \in DOMAIN orphanage :
        \A n \in Elems(orphanage[key]) : parent_id[n] = key

\* C23: a merge starts with comments empty and an empty index; at every merge
\* of a comment the index maps each name to a position inside comments at
\* which the comment of that name stands; no merge reaches outside comments.
C23_IndexValidDuringMerge ==
    /\ pc = "fetching" => comments = <<>>
    /\ pc = "panicked" => failure # "none"
    /\ \A k \in DOMAIN last_page :
           LET st == Before(k) IN
           \A id \in DOMAIN st.comment_hashes :
               /\ st.comment_hashes[id] < Len(st.comments)
               /\ st.comments[st.comment_hashes[id] + 1] = id

\* A comment of the first batch had been registered and drained; the listing
\* resolved afterwards put a comment into comments and attached a reply to it
\* through the index.
C23_Witness ==
    /\ yielded # <<>>
    /\ 1 \in Elems(yielded)
    /\ nodes_served > Len(last_page)
    /\ \E k \in DOMAIN last_page :
           LET st == Before(k)
               p == parent_id[last_page[k]]
           IN /\ p \in DOMAIN st.comment_hashes
              /\ st.comments[st.comment_hashes[p] + 1] = p
              /\ p > 1

\* C24: a next_comment call that has sent a request ends: it hands back a
\* comment or None, unless one of its requests failed.
C24_CallTerminates ==
    (pc = "fetching") ~> ((pc = "idle" /\ result # NoResult) \/ failure # "none")

\* A call has resolved three groups one after the other and handed back the
\* comment the third one brought.
C24_Witness ==
    /\ fetches = 3
    /\ pc = "idle"
    /\ result \in Nodes
    /\ more = <<>>

\* C27: a response that brings neither a comment nor a group is taken as an
\* empty listing: nothing panics, no comment and no group is added, the group
\* it answers is gone from more, and the call resolves the next group of more
\* or, with more empty, returns None.
C27_NoDataIsEmptyListing ==
    [][(/\ pc = "fetching"
        /\ treeVars' # treeVars
        /\ failure' = failure
        /\ nodes_served' = nodes_served
        /\ groups_served' = groups_served) =>
           /\ pc' # "panicked"
           /\ comments' = <<>>
           /\ last_page' = <<>>
           /\ replies' = replies
           /\ yielded' = yielded
           /\ more_item \notin Elems(more')
           /\ IF more = <<>>
              THEN pc' = "idle" /\ result' = None /\ more' = <<>>
              ELSE /\ pc' = "fetching"
                   /\ more_item' = Head(more)
                   /\ more' = Tail(more)]_vars

\* The first request of a call was answered without comments and groups, and
\* the call has sent the request for the next group.
C27_Witness ==
    /\ fetches = 2
    /\ pc = "fetching"
    /\ last_page = <<>>
    /\ orphanage = EmptyMap
    /\ nodes_served = CountKind([i \in DOMAIN batch |-> batch[i].kind], "t1")
    /\ groups_served = CountKind([i \in DOMAIN batch |-> batch[i].kind], "more")

\* The threads that have asked get_authenticator for the guard and wait.
AsksGuard(t) == t_pc[t] \in {"ensure", "want_refresh", "build"}

\* C25: a thread that has found the token due keeps the guard until it has
\* refreshed, so that no two threads are about to refresh for one expiry.
C25_CheckAndRefreshInOneHold ==
    /\ \A t \in Threads : t_pc[t] = "want_refresh" => lock = t
    /\ Cardinality({t \in Threads :
                        t_pc[t] \in {"want_refresh", "refreshing"}}) <= 1

C29_StemFollowsOauth ==
    \A t \in Threads :
        /\ t_pc[t] # "assert_panicked"
        /\ t_pc[t] = "sending" =>
               t_url[t] = (IF oauth(auth_kind) THEN "oauth" ELSE "api")

\* A post_json of a client with a PasswordAuthenticator is on its way to the
\* OAuth stem while a request of another thread has its URL built.
C29_Witness ==
    \E t1, t2 \in Threads :
        /\ t_pc[t1] = "sending"
        /\ t_op[t1] = "post_json"
        /\ t_url[t1] = "oauth"
        /\ t_pc[t2] = "headers"

\* C30: once new has returned with a PasswordAuthenticator the token and its
\* expiry are set, whatever logins fail afterwards, and no thread panics on
\* an unset token in headers().
C30_TokenStaysSet ==
    /\ (auth_kind = "password" /\ c_state \in {"live", "dropped", "drop_panicked"}) =>
           (access_token /\ expire_time # "none")
    /\ \A t \in Threads : t_pc[t] # "token_panicked"

\* The token of a PasswordAuthenticator has expired after a second login, a
\* request built from it is out, and the client has then logged out in Drop.
C30_Witness ==
    /\ auth_kind = "password"
    /\ logins = 2
    /\ expire_time = "passed"
    /\ c_state = "dropped"
    /\ logouts = 1

\* C28: a write action returns: with Ok after the cached field took the new
\* value, or with the error after a request that failed, the cached fields
\* being the ones it found.
C28_FieldFollowsSuccess ==
    /\ w_pc # "panicked"
    /\ w_result = "ok" => w_data = store(w_before, w_op)
    /\ w_result = "err" => w_data = w_before

====
